---- MODULE Spec2Model ----
(***************************************************************************)
(* Model of src/realestatedataset.py: main() loads a CSV file into a       *)
(* DataFrame, cleans it, prints its summary and draws two bar charts.      *)
(*                                                                         *)
(* Texts are sequences of one-character strings, so that parsing and       *)
(* formatting are computed and not assumed.  Numbers are held in           *)
(* thousandths (Scale): 2.5 is 2500.  The input alphabet has at most three *)
(* decimals, and a third decimal 5 only on multiples of 0.125, which are   *)
(* exact in binary floating point, so that numpy's x*100 is exact there.   *)
(* Writes to the logger are not part of the state.                         *)
(***************************************************************************)
EXTENDS Integers, Sequences, FiniteSets, TLC

VARIABLES file, data, pc, raised, shown

vars == <<file, data, pc, raised, shown>>

(***************************************************************************)
(* Characters and texts                                                    *)
(***************************************************************************)
Digits == <<"0", "1", "2", "3", "4", "5", "6", "7", "8", "9">>

\* the characters of the input alphabet, in code-point order
Alphabet ==
    <<" ", "-", ".">> \o Digits \o <<"A", "B", "C", "E", "N", "a", "b", "c", "l", "m", "n">>

Ord(c) == CHOOSE i \in 1..Len(Alphabet) : Alphabet[i] = c

IsDigit(c) == \E i \in 1..Len(Digits) : Digits[i] = c

DigitVal(c) == (CHOOSE i \in 1..Len(Digits) : Digits[i] = c) - 1

AllDigits(s) == \A i \in 1..Len(s) : IsDigit(s[i])

Scale == 10 * 10 * 10

\* value of a digit string, leading zeros ignored as int() and float() do
RECURSIVE DigitsValue(_)
DigitsValue(s) ==
    IF s = <<>> THEN 0
    ELSE 10 * DigitsValue(SubSeq(s, 1, Len(s) - 1)) + DigitVal(s[Len(s)])

\* thousandths denoted by the digits after the decimal point
FractionValue(s) ==
    CASE Len(s) = 0 -> 0
      [] Len(s) = 1 -> 100 * DigitsValue(s)
      [] Len(s) = 2 -> 10 * DigitsValue(s)
      [] OTHER -> DigitsValue(SubSeq(s, 1, 3))

DotAt(s) == IF \E i \in 1..Len(s) : s[i] = "."
            THEN CHOOSE i \in 1..Len(s) : s[i] = "." /\ \A j \in 1..(i - 1) : s[j] # "."
            ELSE 0

\* an unsigned decimal literal: digits, or digits "." digits
ParseUnsigned(s) ==
    LET d == DotAt(s) IN
    IF d = 0
    THEN IF s # <<>> /\ AllDigits(s)
         THEN [ok |-> TRUE, int |-> TRUE, m |-> Scale * DigitsValue(s)]
         ELSE [ok |-> FALSE, int |-> FALSE, m |-> 0]
    ELSE LET ip == SubSeq(s, 1, d - 1)
             fp == SubSeq(s, d + 1, Len(s))
         IN IF AllDigits(ip) /\ AllDigits(fp) /\ Len(ip) + Len(fp) > 0
            THEN [ok |-> TRUE, int |-> FALSE,
                  m |-> Scale * DigitsValue(ip) + FractionValue(fp)]
            ELSE [ok |-> FALSE, int |-> FALSE, m |-> 0]

\* the numeric reading of a text cell: [ok, int, m]
ParseNumber(s) ==
    IF s # <<>> /\ s[1] = "-"
    THEN LET u == ParseUnsigned(Tail(s)) IN [u EXCEPT !.m = 0 - u.m]
    ELSE ParseUnsigned(s)

\* str() of a non-negative integer
RECURSIVE FormatNat(_)
FormatNat(n) ==
    IF n < 10 THEN <<Digits[n + 1]>>
    ELSE FormatNat(n \div 10) \o <<Digits[(n % 10) + 1]>>

\* str() of an int64 value
FormatInt(n) == IF n < 0 THEN <<"-">> \o FormatNat(0 - n) ELSE FormatNat(n)

\* the decimals of a float's repr: trailing zeros dropped, one digit kept
FormatFraction(f) ==
    LET d3 == <<Digits[(f \div 100) + 1], Digits[((f \div 10) % 10) + 1],
                Digits[(f % 10) + 1]>>
    IN IF f % 100 = 0 THEN SubSeq(d3, 1, 1)
       ELSE IF f % 10 = 0 THEN SubSeq(d3, 1, 2) ELSE d3

\* str() of a float64 value given in thousandths: 7030000 is "7030.0"
FormatFloat(m) ==
    LET a == IF m < 0 THEN 0 - m ELSE m IN
    (IF m < 0 THEN <<"-">> ELSE <<>>)
        \o FormatNat(a \div Scale) \o <<".">> \o FormatFraction(a % Scale)

\* s < t in the order Python gives to str
RECURSIVE TextLess(_, _)
TextLess(s, t) ==
    IF t = <<>> THEN FALSE
    ELSE IF s = <<>> THEN TRUE
    ELSE IF s[1] = t[1] THEN TextLess(Tail(s), Tail(t))
    ELSE Ord(s[1]) < Ord(t[1])

(***************************************************************************)
(* Cells and DataFrames                                                    *)
(***************************************************************************)
NaN == [k |-> "nan", s |-> <<>>, m |-> 0]
StrCell(s) == [k |-> "str", s |-> s, m |-> 0]
IntCell(m) == [k |-> "int", s |-> <<>>, m |-> m]
FloatCell(m) == [k |-> "float", s |-> <<>>, m |-> m]

IsNumeric(c) == c.k \in {"int", "float"}

\* a DataFrame: its column names, its index labels (read_csv numbers the rows
\* 1, 2, ... here; dropping rows keeps the labels of the rest) and its rows,
\* each a function of the columns
Frame(cols, index, rows) == [columns |-> cols, index |-> index, rows |-> rows]

NoFrame == Frame({}, <<>>, <<>>)

Column(d, c) == [i \in 1..Len(d.rows) |-> d.rows[i][c]]

SetColumn(d, c, cells) ==
    Frame(d.columns, d.index,
          [i \in 1..Len(d.rows) |-> [d.rows[i] EXCEPT ![c] = cells[i]]])

\* the subsequence of s at the positions in keep
RECURSIVE Select(_, _)
Select(s, keep) ==
    IF s = <<>> THEN <<>>
    ELSE LET n == Len(s)
             front == Select(SubSeq(s, 1, n - 1), keep)
         IN IF n \in keep THEN Append(front, s[n]) ELSE front

SelectRows(d, keep) == Frame(d.columns, Select(d.index, keep), Select(d.rows, keep))

(***************************************************************************)
(* pandas operations used by the program                                   *)
(***************************************************************************)
\* texts read_csv takes as missing (pandas' default na_values, those that
\* can be written in Alphabet)
NaValues == {<<>>, <<"N", "A">>, <<"N", "a", "N">>, <<"n", "a", "n">>}

\* read_csv's type inference for one column of text cells
InferColumn(texts) ==
    LET n == Len(texts)
        missing(i) == texts[i] \in NaValues
        num == [i \in 1..n |-> ParseNumber(texts[i])]
        allNumeric == \A i \in 1..n : missing(i) \/ num[i].ok
        allInt == \A i \in 1..n : ~missing(i) /\ num[i].ok /\ num[i].int
        kind == IF allInt THEN "int" ELSE IF allNumeric THEN "float" ELSE "str"
    IN [i \in 1..n |->
          IF missing(i) THEN NaN
          ELSE [k |-> kind,
                s |-> IF kind = "str" THEN texts[i] ELSE <<>>,
                m |-> IF kind = "str" THEN 0 ELSE num[i].m]]

\* pd.read_csv(path): the header gives the columns, each column is typed alone
read_csv(f) ==
    LET typed == [c \in f.columns |-> InferColumn([i \in 1..Len(f.rows) |-> f.rows[i][c]])]
    IN Frame(f.columns, [i \in 1..Len(f.rows) |-> i],
             [i \in 1..Len(f.rows) |-> [c \in f.columns |-> typed[c][i]]])

\* load_data(file_path): the frame, or FileNotFoundError
load_data(f) ==
    IF ~f.exists
    THEN [raised |-> "FileNotFoundError", data |-> NoFrame]
    ELSE [raised |-> "none", data |-> read_csv(f)]

\* data.drop_duplicates(): a row equal to an earlier row goes, the first stays
drop_duplicates(d) ==
    SelectRows(d, {i \in 1..Len(d.rows) : \A j \in 1..(i - 1) : d.rows[j] # d.rows[i]})

\* data.dropna(): a row with a missing cell in any column goes
dropna(d) ==
    SelectRows(d, {i \in 1..Len(d.rows) : \A c \in d.columns : d.rows[i][c] # NaN})

\* data.drop(columns=[c])
drop_column(d, c) ==
    Frame(d.columns \ {c}, d.index,
          [i \in 1..Len(d.rows) |-> [x \in d.columns \ {c} |-> d.rows[i][x]]])

\* pd.to_numeric(cells, errors='coerce'): a numeric column is returned as it
\* is; in a column of texts each text is parsed, and one that does not parse
\* becomes missing
to_numeric(cells) ==
    LET n == Len(cells)
        isText(i) == cells[i].k = "str"
        num == [i \in 1..n |-> ParseNumber(cells[i].s)]
        kind == IF \A i \in 1..n : isText(i) /\ num[i].ok /\ num[i].int
                THEN "int" ELSE "float"
    IN IF \A i \in 1..n : ~isText(i) THEN cells
       ELSE [i \in 1..n |->
               IF ~isText(i) THEN cells[i]
               ELSE IF ~num[i].ok THEN NaN
               ELSE [k |-> kind, s |-> <<>>, m |-> num[i].m]]

\* Series.astype(str): str() of each cell
astype_str(cells) ==
    [i \in 1..Len(cells) |->
        CASE cells[i].k = "str" -> cells[i]
          [] cells[i].k = "int" -> StrCell(FormatInt(cells[i].m \div Scale))
          [] cells[i].k = "float" -> StrCell(FormatFloat(cells[i].m))
          [] OTHER -> StrCell(<<"n", "a", "n">>)]

\* rint with an exact half rounded away from zero, as C's round() does
rint_half_away(m, unit) ==
    LET q == m \div unit
        r == m % unit
    IN IF 2 * r < unit THEN q
       ELSE IF 2 * r > unit THEN q + 1
       ELSE IF m < 0 THEN q ELSE q + 1

\* numpy's rint on m / unit: the nearest integer, an exact half to the even one
rint(m, unit) ==
    LET q == m \div unit
        r == m % unit
    IN IF 2 * r < unit THEN q
       ELSE IF 2 * r > unit THEN q + 1
       ELSE IF q % 2 = 0 THEN q ELSE q + 1

\* the thousandths in one unit of the given decimal place (0 or 2 here)
UnitOf(decimals) == IF decimals = 0 THEN Scale ELSE Scale \div 100

\* numpy's round(x, decimals): rint(x * 10^decimals) / 10^decimals
np_round(m, decimals) == rint(m, UnitOf(decimals)) * UnitOf(decimals)

\* Series.round(decimals): floats are rounded, integers and missing cells stay
round(cells, decimals) ==
    [i \in 1..Len(cells) |->
        IF cells[i].k = "float" THEN FloatCell(np_round(cells[i].m, decimals))
        ELSE cells[i]]

\* Series.astype(int) raises on a missing cell (IntCastingNaNError, a ValueError)
astype_int_raises(cells) == \E i \in 1..Len(cells) : cells[i] = NaN

\* Series.astype(int) of numeric cells: the fraction is cut off
astype_int(cells) ==
    [i \in 1..Len(cells) |->
        LET m == cells[i].m
            a == IF m < 0 THEN 0 - m ELSE m
            t == (a \div Scale) * Scale
        IN IntCell(IF m < 0 THEN 0 - t ELSE t)]

(***************************************************************************)
(* clean_data                                                              *)
(***************************************************************************)
numeric_columns == {"price", "bed", "bath", "acre_lot", "house_size"}

text_columns == {"street", "zip_code"}

integer_columns == {"bed", "bath", "house_size"}

\* the columns of cs that the frame has: `if c in data.columns`
Present(d, cs) == cs \cap d.columns

\* `data[c] = done[c]` for each column c that done gives cells for
AssignColumns(d, done) ==
    Frame(d.columns, d.index,
          [i \in 1..Len(d.rows) |->
             [c \in d.columns |-> IF c \in DOMAIN done THEN done[c][i] ELSE d.rows[i][c]]])

round2(cells) == round(cells, 2)

round0_int(cells) == astype_int(round(cells, 0))

\* the frame before the rounding step: duplicates and rows with a missing
\* cell dropped, brokered_by dropped, numeric columns coerced, texts made str
coerced(d) ==
    LET deduped == drop_duplicates(d)
        complete == dropna(deduped)
        pruned == IF "brokered_by" \in complete.columns
                  THEN drop_column(complete, "brokered_by")
                  ELSE complete
        numeric == AssignColumns(pruned, [c \in Present(pruned, numeric_columns) |->
                                            to_numeric(Column(pruned, c))])
    IN AssignColumns(numeric, [c \in Present(numeric, text_columns) |->
                                 astype_str(Column(numeric, c))])

\* whether the rounding step raises: astype(int) meets a missing cell in
\* bed, bath or house_size
rounding_raises(d) ==
    \E c \in Present(d, integer_columns) : astype_int_raises(round(Column(d, c), 0))

\* clean_data(data): the cleaned frame, or the ValueError of astype(int)
clean_data(d) ==
    LET typed == coerced(d) IN
    IF rounding_raises(typed)
    THEN [raised |-> "ValueError", data |-> NoFrame]
    ELSE [raised |-> "none",
          data |-> AssignColumns(typed,
                     [c \in Present(typed, numeric_columns) |->
                        IF c \in integer_columns THEN round0_int(Column(typed, c))
                        ELSE round2(Column(typed, c))])]

(***************************************************************************)
(* plot_data                                                               *)
(***************************************************************************)
TopN == 50

\* the order groupby gives to its keys: texts as str, numbers by value
KeyLess(a, b) ==
    IF a.k = "str" /\ b.k = "str" THEN TextLess(a.s, b.s) ELSE a.m < b.m

\* the keys in ascending order (groupby sorts its groups by key)
RECURSIVE SortKeys(_)
SortKeys(keys) ==
    IF keys = {} THEN <<>>
    ELSE LET least == CHOOSE x \in keys : \A y \in keys \ {x} : KeyLess(x, y)
         IN <<least>> \o SortKeys(keys \ {least})

RECURSIVE SumOver(_, _)
SumOver(cells, at) ==
    IF at = {} THEN 0
    ELSE LET i == CHOOSE x \in at : TRUE
         IN cells[i].m + SumOver(cells, at \ {i})

\* data.groupby(key)[value].mean(): one entry per key that is not missing, in
\* key order; the mean, sum / n, is over the group's cells that are not
\* missing (n = 0: the mean is NaN)
groupby_mean(d, key, value) ==
    LET keys == SortKeys({d.rows[i][key] : i \in 1..Len(d.rows)} \ {NaN})
        cells == Column(d, value)
        counted(k) == {i \in 1..Len(d.rows) : d.rows[i][key] = k /\ cells[i] # NaN}
    IN [g \in 1..Len(keys) |->
          [key |-> keys[g], sum |-> SumOver(cells, counted(keys[g])),
           n |-> Cardinality(counted(keys[g]))]]

\* mean of a < mean of b, neither NaN
MeanLess(a, b) == a.sum * b.n < b.sum * a.n

\* the orders in which the entries at `left` can follow one another by
\* descending mean
RECURSIVE Descending(_, _)
Descending(series, left) ==
    IF left = {} THEN {<<>>}
    ELSE UNION {{<<series[g]>> \o rest : rest \in Descending(series, left \ {g})} :
                  g \in {x \in left : \A y \in left : ~MeanLess(series[x], series[y])}}

\* sort_values without ascending=False: the same orders, smallest mean first
sort_values_ascending(series) ==
    LET live == {g \in 1..Len(series) : series[g].n > 0}
        nans == Select(series, {g \in 1..Len(series) : series[g].n = 0})
    IN {[i \in 1..Len(order) |-> order[Len(order) + 1 - i]] \o nans :
          order \in Descending(series, live)}

\* series.sort_values(ascending=False): descending means, then the NaN means
\* in their order.  The default kind is quicksort, which is not stable: the
\* order of equal means is the sort's, so every such order is an outcome
sort_values(series) ==
    LET live == {g \in 1..Len(series) : series[g].n > 0}
        nans == Select(series, {g \in 1..Len(series) : series[g].n = 0})
    IN {order \o nans : order \in Descending(series, live)}

\* series.head(n)
head(series, n) == SubSeq(series, 1, IF Len(series) < n THEN Len(series) ELSE n)

\* groupby(key)[value] raises KeyError when either column is absent
groupby_raises(d, key, value) == key \notin d.columns \/ value \notin d.columns

\* series.plot(kind='bar') raises IndexError when there is no bar to place
bar_raises(series) == series = <<>>

(***************************************************************************)
(* main                                                                    *)
(***************************************************************************)
\* data = load_data(file_path); FileNotFoundError is logged and main returns
Load ==
    /\ pc = "start"
    /\ \E r \in {load_data(file)} :
         IF r.raised = "none"
         THEN /\ data' = r.data
              /\ pc' = "loaded"
              /\ UNCHANGED raised
         ELSE /\ pc' = "returned"
              /\ UNCHANGED <<data, raised>>
    /\ UNCHANGED <<file, shown>>

\* data = clean_data(data); an exception leaves main
Clean ==
    /\ pc = "loaded"
    /\ \E r \in {clean_data(data)} :
         IF r.raised = "none"
         THEN /\ data' = r.data
              /\ pc' = "cleaned"
              /\ UNCHANGED raised
         ELSE /\ raised' = r.raised
              /\ pc' = "crashed"
              /\ UNCHANGED data
    /\ UNCHANGED <<file, shown>>

\* analyze_data(data): data.info() prints and changes nothing
Analyze ==
    /\ pc = "cleaned"
    /\ pc' = "analyzed"
    /\ UNCHANGED <<file, data, raised, shown>>

\* plot_data, first chart: the top cities by mean price, up to plt.show()
PlotTopCities ==
    /\ pc = "analyzed"
    /\ IF groupby_raises(data, "city", "price")
       THEN /\ raised' = "KeyError"
            /\ pc' = "crashed"
            /\ UNCHANGED shown
       ELSE IF bar_raises(groupby_mean(data, "city", "price"))
       THEN /\ raised' = "IndexError"
            /\ pc' = "crashed"
            /\ UNCHANGED shown
       ELSE /\ \E sorted \in sort_values(groupby_mean(data, "city", "price")) :
                 shown' = Append(shown, [chart |-> "top_cities",
                                         series |-> head(sorted, TopN)])
            /\ pc' = "cities_shown"
            /\ UNCHANGED raised
    /\ UNCHANGED <<file, data>>

\* the second chart without its `if 'bed' in data.columns`
PlotByBedUnguarded ==
    /\ pc = "cities_shown"
    /\ IF groupby_raises(data, "bed", "price")
       THEN /\ raised' = "KeyError"
            /\ pc' = "crashed"
            /\ UNCHANGED shown
       ELSE /\ shown' = Append(shown, [chart |-> "price_by_bed",
                                       series |-> groupby_mean(data, "bed", "price")])
            /\ pc' = "done"
            /\ UNCHANGED raised
    /\ UNCHANGED <<file, data>>

\* plot_data, second chart: mean price by bedrooms, drawn only `if 'bed' in
\* data.columns`
PlotByBed ==
    /\ pc = "cities_shown"
    /\ IF "bed" \notin data.columns
       THEN /\ pc' = "done"
            /\ UNCHANGED <<raised, shown>>
       ELSE IF groupby_raises(data, "bed", "price")
       THEN /\ raised' = "KeyError"
            /\ pc' = "crashed"
            /\ UNCHANGED shown
       ELSE IF bar_raises(groupby_mean(data, "bed", "price"))
       THEN /\ raised' = "IndexError"
            /\ pc' = "crashed"
            /\ UNCHANGED shown
       ELSE /\ shown' = Append(shown, [chart |-> "price_by_bed",
                                       series |-> groupby_mean(data, "bed", "price")])
            /\ pc' = "done"
            /\ UNCHANGED raised
    /\ UNCHANGED <<file, data>>

Next == Load \/ Clean \/ Analyze \/ PlotTopCities \/ PlotByBed

(***************************************************************************)
(* The input files                                                         *)
(***************************************************************************)
MaxRows == 2
MaxGroupRows == 3
MaxCities == 52

Columns ==
    {"brokered_by", "price", "bed", "bath", "acre_lot", "house_size", "street",
     "city", "zip_code"}

\* a listing with nothing unusual in it
UsualRow ==
    [brokered_by |-> <<"1">>, price |-> <<"3", "0", "0">>, bed |-> <<"2">>,
     bath |-> <<"1">>, acre_lot |-> <<"0", ".", "2", "5">>,
     house_size |-> <<"9", "0", "0">>, street |-> <<"1", "2", " ", "E", "l", "m">>,
     city |-> <<"A">>, zip_code |-> <<"0", "7", "0", "3", "0">>]

\* what a cell of each column may hold instead
Texts(c) ==
    CASE c = "brokered_by" -> {<<"1">>, <<"2">>}
      [] c = "price" -> {<<"3", "0", "0">>, <<"3", "0", "0", ".", "0", "0", "1">>,
                         <<"1", "2", "3", ".", "4", "5", "6">>,
                         <<"0", ".", "1", "2", "5">>, <<"0", ".", "3", "7", "5">>,
                         <<"a", "b", "c">>, <<>>}
      [] c = "bed" -> {<<"2">>, <<"2", ".", "5">>, <<"0", ".", "5">>,
                       <<"1", ".", "5">>, <<"a", "b", "c">>}
      [] c = "bath" -> {<<"1">>, <<"3", ".", "5">>, <<"a", "b", "c">>}
      [] c = "acre_lot" -> {<<"0", ".", "2", "5">>, <<"0", ".", "1", "2", "5">>,
                            <<"a", "b", "c">>}
      [] c = "house_size" -> {<<"9", "0", "0">>, <<"9", "0", "0", ".", "5">>,
                              <<"a", "b", "c">>}
      [] c = "street" -> {<<"1", "2", " ", "E", "l", "m">>, <<"0", "1", "2">>}
      [] c = "city" -> {<<"A">>, <<"B">>}
      [] c = "zip_code" -> {<<"0", "7", "0", "3", "0">>, <<"7", "0", "3", "0">>,
                            <<"0", "7", "0", "3", "0", "-", "1">>, <<>>}

CsvFile(cols, rows) == [exists |-> TRUE, columns |-> cols, rows |-> rows]

NoFile == [exists |-> FALSE, columns |-> {}, rows |-> <<>>]

\* a file of up to MaxRows listings that differ from the usual one in one
\* column, with every column or all but one in the header
ListingFile(f) ==
    \E absent \in {{}} \cup {{c} : c \in Columns} : \E varied \in Columns :
        \E n \in 0..MaxRows : \E cells \in [1..n -> Texts(varied)] :
            f = CsvFile(Columns \ absent,
                        [i \in 1..n |-> [c \in Columns \ absent |->
                                           IF c = varied THEN cells[i] ELSE UsualRow[c]]])

GroupCities == {<<"A">>, <<"B">>}
GroupPrices == {<<"1", "0", "0">>, <<"3", "0", "0">>}
GroupBeds == {<<"2">>, <<"3">>}

\* a file of up to MaxGroupRows listings of city, price and bed
GroupFile(f) ==
    \E n \in 1..MaxGroupRows :
        \E rows \in [1..n -> [city : GroupCities, price : GroupPrices, bed : GroupBeds]] :
            f = CsvFile({"city", "price", "bed"}, rows)

\* the i-th of many cities: "C" and two digits
CityName(i) == <<"C", Digits[(i \div 10) + 1], Digits[(i % 10) + 1]>>

\* the price of the i-th city: all different, or the last cities from TopN on
\* alike, or the first two alike
CityPrice(pattern, i) ==
    CASE pattern = "different" -> 1000 - i
      [] pattern = "last_alike" -> IF i >= TopN THEN 100 ELSE 1000 - i
      [] pattern = "first_alike" -> IF i <= 2 THEN 1000 ELSE 900 - i

\* a file of about TopN cities, one listing each, in name order or against it
CityFile(f) ==
    \E n \in (TopN - 1)..MaxCities :
        \E pattern \in {"different", "last_alike", "first_alike"} : \E forward \in BOOLEAN :
            f = CsvFile({"city", "price"},
                        [i \in 1..n |->
                           LET j == IF forward THEN i ELSE n + 1 - i
                           IN [city |-> CityName(j),
                               price |-> FormatNat(CityPrice(pattern, j))]])

Init ==
    /\ file = NoFile \/ ListingFile(file) \/ GroupFile(file) \/ CityFile(file)
    /\ data = NoFrame
    /\ pc = "start"
    /\ raised = "none"
    /\ shown = <<>>

Spec == Init /\ [][Next]_vars

(***************************************************************************)
(* What the claims speak of                                                *)
(***************************************************************************)
\* clean_data has returned: data is the cleaned frame
CleanReturned ==
    pc \in {"cleaned", "analyzed", "cities_shown", "done"}
        \/ (pc = "crashed" /\ raised \in {"KeyError", "IndexError"})

\* plot_data has ended, by returning or by raising
PlotEnded == pc = "done" \/ (pc = "crashed" /\ raised \in {"KeyError", "IndexError"})

\* the text in the file of the cell now at row i, column c of data
SourceText(i, c) == file.rows[data.index[i]][c]

Abs(x) == IF x < 0 THEN 0 - x ELSE x

\* r is a multiple of unit nearest to x, and the even multiple when two are
NearestEven(r, x, unit) ==
    /\ r % unit = 0
    /\ 2 * Abs(r - x) <= unit
    /\ 2 * Abs(r - x) = unit => (r \div unit) % 2 = 0

\* r is a multiple of unit nearest to x, and the one away from zero when two are
NearestAway(r, x, unit) ==
    /\ r % unit = 0
    /\ 2 * Abs(r - x) <= unit
    /\ 2 * Abs(r - x) = unit => Abs(r) > Abs(x)

\* the cleaned cells whose source text is a number
RoundedCells(cs) ==
    {<<i, c>> \in (1..Len(data.rows)) \X (cs \cap data.columns) :
        ParseNumber(SourceText(i, c)).ok}

SourceValue(i, c) == ParseNumber(SourceText(i, c)).m

\* the chart of the top cities, once drawn
TopCities == shown[1].series

\* entry x of a series ranks strictly above entry y: a mean above a NaN
\* mean, a greater mean above a smaller one
RanksAbove(x, y) ==
    (x.n > 0 /\ y.n = 0) \/ (x.n > 0 /\ y.n > 0 /\ x.sum * y.n > y.sum * x.n)

SameMean(x, y) == x.n > 0 /\ y.n > 0 /\ x.sum * y.n = y.sum * x.n

\* the first row of data with the given city
FirstRow(key) ==
    CHOOSE i \in 1..Len(data.rows) :
        /\ data.rows[i]["city"] = key
        /\ \A j \in 1..(i - 1) : data.rows[j]["city"] # key

RowsWith(c, key) == {i \in 1..Len(data.rows) : data.rows[i][c] = key}

\* the rows of a city that have a price
PricedRows(key) == {i \in RowsWith("city", key) : data.rows[i]["price"] # NaN}

\* the cities of data, each with the sum and the number of its prices
CityMeans ==
    {[key |-> key, sum |-> SumOver(Column(data, "price"), PricedRows(key)),
      n |-> Cardinality(PricedRows(key))] :
       key \in {data.rows[i]["city"] : i \in 1..Len(data.rows)}}

GroupColumn(chart) == IF chart = "top_cities" THEN "city" ELSE "bed"

\* C1: when clean_data returns, no cell of the returned table is missing.
C1_NoMissingSurvives ==
    CleanReturned =>
        \A i \in 1..Len(data.rows) : \A c \in data.columns : data.rows[i][c] # NaN

\* C2: when clean_data returns, no two rows of the returned table are equal
\* over the retained columns.
C2_NoDuplicateSurvives ==
    CleanReturned =>
        \A i, j \in 1..Len(data.rows) : i < j => data.rows[i] # data.rows[j]

\* C3: cleaning the cleaned table returns it as it is: same rows in the same
\* order, same columns, same cells.
C3_CleanIdempotent ==
    CleanReturned => clean_data(data) = [raised |-> "none", data |-> data]

\* C4: clean_data never raises, whatever the cells hold.
C4_CleanNeverRaises == raised # "ValueError"

\* C5 as stated: a bed, bath or house_size value k + 0.5 is cleaned to k + 1,
\* and price and acre_lot go to 2 decimals with exact halves away from zero.
C5_HalfAwayFromZero ==
    pc = "cleaned" =>
        /\ \A <<i, c>> \in RoundedCells(integer_columns) :
              NearestAway(data.rows[i][c].m, SourceValue(i, c), Scale)
        /\ \A <<i, c>> \in RoundedCells({"price", "acre_lot"}) :
              NearestAway(data.rows[i][c].m, SourceValue(i, c), Scale \div 100)

\* C5 as amended: a bed, bath or house_size value is cleaned to the nearest
\* integer and k + 0.5 to the even one of k and k + 1; price and acre_lot go
\* to 2 decimals, an exact half of the third decimal to the even second one.
C5_HalfToEven ==
    pc = "cleaned" =>
        /\ \A <<i, c>> \in RoundedCells(integer_columns) :
              /\ data.rows[i][c].k = "int"
              /\ NearestEven(data.rows[i][c].m, SourceValue(i, c), Scale)
        /\ \A <<i, c>> \in RoundedCells({"price", "acre_lot"}) :
              /\ IsNumeric(data.rows[i][c])
              /\ NearestEven(data.rows[i][c].m, SourceValue(i, c), Scale \div 100)

\* C5's case: a bed of k + 0.5 with k even has been cleaned, and went to k
C5_HalfWentToEven ==
    /\ pc = "cleaned"
    /\ \E <<i, c>> \in RoundedCells({"bed"}) :
          /\ SourceValue(i, c) % (2 * Scale) = Scale \div 2
          /\ data.rows[i][c] = IntCell(SourceValue(i, c) - Scale \div 2)

\* C6 as stated: the top cities are in descending order of mean price, cut
\* to the first TopN, and cities of equal mean are in the order in which
\* they first appear in the table.
C6_TiesInFirstAppearanceOrder ==
    shown # <<>> =>
        /\ Len(TopCities) <= TopN
        /\ \A a, b \in 1..Len(TopCities) :
              a < b =>
                /\ ~RanksAbove(TopCities[b], TopCities[a])
                /\ SameMean(TopCities[a], TopCities[b]) =>
                      FirstRow(TopCities[a].key) < FirstRow(TopCities[b].key)

\* C6 as amended: the chart holds min(TopN, number of cities) different
\* cities with their group means, in descending order of mean, and no city
\* left out has a greater mean than one in the chart; nothing is promised
\* about the order of equal means.
C6_TopCitiesDescending ==
    shown # <<>> =>
        LET all == CityMeans
            kept == {TopCities[a] : a \in 1..Len(TopCities)}
        IN /\ Len(TopCities) = IF Cardinality(all) < TopN THEN Cardinality(all) ELSE TopN
           /\ kept \subseteq all
           /\ Cardinality(kept) = Len(TopCities)
           /\ \A a, b \in 1..Len(TopCities) :
                 a < b => ~RanksAbove(TopCities[b], TopCities[a])
           /\ \A x \in all \ kept : \A y \in kept : ~RanksAbove(x, y)

\* C6's case: more than TopN cities, so the chart is cut, and two cities in
\* the chart have the same mean
C6_CutWithTie ==
    /\ shown # <<>>
    /\ Cardinality(CityMeans) > TopN
    /\ Len(TopCities) = TopN
    /\ \E a, b \in 1..Len(TopCities) : a < b /\ SameMean(TopCities[a], TopCities[b])

\* C7 as stated: with the city column absent the by-city aggregation fails
\* before any chart, and with the bed column absent the by-bedroom aggregation
\* fails too: plot_data does not return normally without it.
C7_AbsentKeyFailsBothModes ==
    /\ (PlotEnded /\ "city" \notin data.columns) => raised = "KeyError" /\ shown = <<>>
    /\ pc = "done" => "bed" \in data.columns

\* C7 as amended: with the city column absent plot_data fails with KeyError
\* before any chart; with the bed column absent (city and price present, at
\* least one listing) it returns normally, having drawn the city chart and
\* skipped the bedroom one.
C7_CityFailsBedSkipped ==
    PlotEnded =>
        /\ "city" \notin data.columns => raised = "KeyError" /\ shown = <<>>
        /\ ("bed" \notin data.columns /\ {"city", "price"} \subseteq data.columns
                /\ data.rows # <<>>) =>
              /\ pc = "done"
              /\ raised = "none"
              /\ Len(shown) = 1
              /\ shown[1].chart = "top_cities"

\* C7's case: the bed column is absent and plot_data has returned with the
\* city chart alone
C7_BedChartSkipped ==
    /\ pc = "done"
    /\ "bed" \notin data.columns
    /\ Len(shown) = 1

\* C8: after load_data and clean_data every street and zip_code cell is the
\* text of the source cell, character by character.
C8_IdentifierTextPreserved ==
    CleanReturned =>
        \A i \in 1..Len(data.rows) : \A c \in text_columns \cap data.columns :
            data.rows[i][c] = StrCell(SourceText(i, c))

\* C9: no stage fails because a column other than the grouping key is
\* absent: clean_data returns the columns it was given less brokered_by, it
\* raises only over a cell that is there, and the charts fail only when the
\* city column is absent.
C9_AbsentColumnNeverFails ==
    /\ CleanReturned => data.columns = file.columns \ {"brokered_by"}
    /\ raised = "ValueError" =>
          \E c \in integer_columns \cap file.columns : \E i \in 1..Len(file.rows) :
              ~ParseNumber(file.rows[i][c]).ok
    /\ raised = "KeyError" => "city" \notin data.columns

\* C10: in each chart every entry stands for exactly the rows of the cleaned
\* table that have its key, its mean is the sum of their prices over their
\* number, and every row's key has its entry (in the city chart, unless cut).
C10_GroupMeanOverRowsWithKey ==
    \A f \in 1..Len(shown) :
        LET c == GroupColumn(shown[f].chart)
            series == shown[f].series
        IN /\ \A e \in 1..Len(series) :
                 /\ series[e].n = Cardinality(RowsWith(c, series[e].key))
                 /\ series[e].sum = SumOver(Column(data, "price"), RowsWith(c, series[e].key))
           /\ \A a, b \in 1..Len(series) : a # b => series[a].key # series[b].key
           /\ Len(series) < TopN =>
                 \A i \in 1..Len(data.rows) :
                     \E e \in 1..Len(series) : series[e].key = data.rows[i][c]

====
